---- MODULE Spec2Model ----
(***************************************************************************)
(* Model of src/main/main.go: a cancellable fan-out / fan-in pipeline.     *)
(*                                                                         *)
(*   createValueStream -> valuesToIntStream -> N x primeNumberWorker       *)
(*        -> reduceWorkers (N forwarders + closer) -> createResultStream   *)
(*        -> main (range over the result, print, deferred close(done))     *)
(*                                                                         *)
(* Every channel of the program is unbuffered, so a send and its receive   *)
(* are one step taken by both goroutines.  A select is modelled by the set *)
(* of its cases that are ready; when several are ready any may be taken.   *)
(* In a select, the right-hand side of a send case is evaluated on entry,  *)
(* before any case is chosen: getValue() (line 131) and <-valueStream      *)
(* (line 66) are therefore steps of their own that precede the select.     *)
(* When main returns the program exits and no goroutine runs any more.     *)
(* A variable that holds an item is set back to NilItem once the item has  *)
(* been passed on or dropped: the code never reads it again before it is   *)
(* overwritten.                                                            *)
(***************************************************************************)
EXTENDS Naturals, Integers, Sequences, FiniteSets

\* Bounds of the model: the flags p (MaxK), n (MaxN), r (MaxRange) and, in the
\* runs that record histories, the number of calls of the value source.
MaxK == 2
MaxN == 2
MaxRange == 4
MaxCalls == 2
\* Bounds of the runs that check behaviours under fairness (no histories, no cap
\* on the value source).
LiveMaxK == 1
LiveMaxN == 1
LiveMaxRange == 3

VARIABLES
    K,          \* flag p: number of results wanted (numPrimes)
    N,          \* flag n: number of workers (numWorkers)
    R,          \* flag r: values are drawn from 0 .. R-1 (numRange)
    mainPc,     \* position of main
    fanI,       \* loop index i of main's fan-out loop
    doneCloses, \* number of times done was closed
    closes,     \* number of times valStream, intStream, reducedStream, result were closed
    wcloses,    \* number of times each worker's primeNumStream was closed
    genPc,      \* createValueStream's goroutine
    genVal,     \* the value getValue() returned, waiting in the select
    projPc,     \* valuesToIntStream's goroutine
    projVal,    \* item held by the projection
    workPc,     \* primeNumberWorker goroutines
    workVal,    \* num held by each worker
    fwdPc,      \* reduceChan goroutines
    fwdVal,     \* item held by each forwarder
    wg,         \* the WaitGroup counter of reduceWorkers
    closerPc,   \* the goroutine that waits on wg and closes reducedStream
    consPc,     \* createResultStream's goroutine
    consI,      \* its loop index i
    consVal,    \* the value it received from valueStream
    printed,    \* the items main received from the result stream and printed, in order
    ghost,      \* TRUE: histories are recorded and the value source is capped
    anySource,  \* TRUE: getValue may also return an item that is not an int64
    calls,      \* history: number of getValue() calls
    handed,     \* history: number of values handed over on valStream
    sentInt,    \* history: number of values the projection sent on intStream
    recvd,      \* history: values each worker received from intStream
    emitted,    \* history: values each worker sent on its primeNumStream
    merged      \* history: values each forwarder sent on reducedStream

vars == <<K, N, R, mainPc, fanI, doneCloses, closes, wcloses, genPc, genVal,
          projPc, projVal, workPc, workVal, fwdPc, fwdVal, wg, closerPc,
          consPc, consI, consVal, printed, ghost, anySource, calls, handed,
          sentInt, recvd, emitted, merged>>

flagVars == <<K, N, R, ghost, anySource>>
genVars  == <<genPc, genVal>>
projVars == <<projPc, projVal>>
workVars == <<workPc, workVal>>
fwdVars  == <<fwdPc, fwdVal>>
consVars == <<consPc, consI, consVal>>
histVars == <<calls, handed, sentInt, recvd, emitted, merged>>

Workers == 1 .. N
Values  == 0 .. (R - 1)

\* The zero value of interface{} that a receive from a closed channel yields.
NilItem == 0 - 1

\* An item of a dynamic type other than int64.
NotInt64 == 0 - 2

\* What getValue may return: randVal's rand.Int63n(num), an int64 in 0 .. num-1;
\* createValueStream itself takes any func() interface{}.
Source == IF anySource THEN Values \cup {NotInt64} ELSE Values

\* A type assertion that lets every item through.
IsInt64Any(item) == TRUE

\* line 147: item.(int64) succeeds on an int64 and panics on anything else.
IsInt64(item) == item # NotInt64

\* A primality test that forgets that 0 and 1 are not prime.
IsPrimeNoLowerBound(n) == \A d \in 2 .. (n - 1) : n % d # 0

\* big.NewInt(num).ProbablyPrime(0): exact for every int64.
IsPrime(n) == n > 1 /\ \A d \in 2 .. (n - 1) : n % d # 0

\* A select without its done case: a bare send.
ReadyNoCancel(cancelled, partner) == IF partner THEN {"send"} ELSE {}

\* The cases of a two-way select {case <-done; case ch <- v} that are ready.
Ready(cancelled, partner) ==
    (IF cancelled THEN {"done"} ELSE {}) \cup (IF partner THEN {"send"} ELSE {})

doneClosed == doneCloses > 0
IsClosed(s) == closes[s] > 0
Close(s) == [closes EXCEPT ![s] = @ + 1]

\* A goroutine runs only while the program has neither exited nor panicked.
Running == mainPc \notin {"exited", "panicked"}

Record(h, v) == IF ghost THEN Append(h, v) ELSE h
Tick(c) == IF ghost THEN c + 1 ELSE c

----------------------------------------------------------------------------
Streams == {"valStream", "intStream", "reducedStream", "result"}

InitCommon ==
    /\ mainPc = "createValueStream"
    /\ fanI = 0
    /\ doneCloses = 0
    /\ closes = [s \in Streams |-> 0]
    /\ wcloses = [w \in Workers |-> 0]
    /\ genPc = "none" /\ genVal = NilItem
    /\ projPc = "none" /\ projVal = NilItem
    /\ workPc = [w \in Workers |-> "none"]
    /\ workVal = [w \in Workers |-> NilItem]
    /\ fwdPc = [w \in Workers |-> "none"]
    /\ fwdVal = [w \in Workers |-> NilItem]
    /\ wg = 0
    /\ closerPc = "none"
    /\ consPc = "none" /\ consI = 0 /\ consVal = NilItem
    /\ printed = <<>>
    /\ calls = 0 /\ handed = 0
    /\ sentInt = 0
    /\ recvd = [w \in Workers |-> <<>>]
    /\ emitted = [w \in Workers |-> <<>>]
    /\ merged = [w \in Workers |-> <<>>]

Init ==
    /\ K \in 0 .. MaxK
    /\ N \in 0 .. MaxN
    /\ R \in 1 .. MaxRange
    /\ ghost = TRUE
    /\ anySource = FALSE
    /\ InitCommon

InitLive ==
    /\ K \in 0 .. LiveMaxK
    /\ N \in 0 .. LiveMaxN
    /\ R \in 1 .. LiveMaxRange
    /\ ghost = FALSE
    /\ anySource = FALSE
    /\ InitCommon

\* valuesToIntStream fed by a value source of any type.
InitAnySource ==
    /\ K \in 0 .. LiveMaxK
    /\ N \in 0 .. LiveMaxN
    /\ R \in 1 .. LiveMaxRange
    /\ ghost = TRUE
    /\ anySource = TRUE
    /\ InitCommon

----------------------------------------------------------------------------
\* main, lines 36-47: the stages are created in order.

MainCreateValueStream ==
    /\ mainPc = "createValueStream"
    /\ genPc' = "eval"
    /\ mainPc' = "valuesToIntStream"
    /\ UNCHANGED <<flagVars, fanI, doneCloses, closes, wcloses, genVal, projVars,
                   workVars, fwdVars, wg, closerPc, consVars, printed, histVars>>

MainValuesToIntStream ==
    /\ mainPc = "valuesToIntStream"
    /\ projPc' = "range"
    /\ mainPc' = "fanOut"
    /\ UNCHANGED <<flagVars, fanI, doneCloses, closes, wcloses, genVars, projVal,
                   workVars, fwdVars, wg, closerPc, consVars, printed, histVars>>

MainFanOut ==
    /\ mainPc = "fanOut"
    /\ IF fanI < N
         THEN /\ workPc' = [workPc EXCEPT ![fanI + 1] = "range"]
              /\ fanI' = fanI + 1
              /\ mainPc' = mainPc
         ELSE /\ mainPc' = "reduceWorkers"
              /\ UNCHANGED <<workPc, fanI>>
    /\ UNCHANGED <<flagVars, doneCloses, closes, wcloses, genVars, projVars,
                   workVal, fwdVars, wg, closerPc, consVars, printed, histVars>>

\* A count that misses one channel.
AddCountShort == N - 1

\* line 91: wg.Add(len(channels)).
AddCount == N

\* lines 75-98: the forwarders and the closer are started.
MainReduceWorkers ==
    /\ mainPc = "reduceWorkers"
    /\ wg' = wg + AddCount
    /\ fwdPc' = [w \in Workers |-> "range"]
    /\ closerPc' = "wait"
    /\ mainPc' = "createResultStream"
    /\ UNCHANGED <<flagVars, fanI, doneCloses, closes, wcloses, genVars, projVars,
                   workVars, fwdVal, consVars, printed, histVars>>

MainCreateResultStream ==
    /\ mainPc = "createResultStream"
    /\ consPc' = "loop"
    /\ consI' = 0
    /\ mainPc' = "range"
    /\ UNCHANGED <<flagVars, fanI, doneCloses, closes, wcloses, genVars, projVars,
                   workVars, fwdVars, wg, closerPc, consVal, printed, histVars>>

\* A main that does not wait for the result stream to be closed.
RangeEndsAtOnce == TRUE

\* line 50: range primeNumberStream ends when the stream is closed.
RangeEnds == IsClosed("result")

\* line 50-52: the range over primeNumberStream ends when the stream is closed.
MainRangeClosed ==
    /\ mainPc = "range"
    /\ RangeEnds
    /\ mainPc' = "deferClose"
    /\ UNCHANGED <<flagVars, fanI, doneCloses, closes, wcloses, genVars, projVars,
                   workVars, fwdVars, wg, closerPc, consVars, printed, histVars>>

\* A main that closes done explicitly and again in its defer.
DeferredClosesTwice == 1 + 1

\* line 32: main closes done once, in its only defer.
DeferredCloses == 1

\* line 32: defer close(done), run when main returns.
MainCloseDone ==
    /\ mainPc = "deferClose"
    /\ doneCloses' = doneCloses + DeferredCloses
    /\ mainPc' = "returned"
    /\ UNCHANGED <<flagVars, fanI, closes, wcloses, genVars, projVars,
                   workVars, fwdVars, wg, closerPc, consVars, printed, histVars>>

\* main has returned: the program exits without waiting for the goroutines.
ProgramExit ==
    /\ mainPc = "returned"
    /\ mainPc' = "exited"
    /\ UNCHANGED <<flagVars, fanI, doneCloses, closes, wcloses, genVars, projVars,
                   workVars, fwdVars, wg, closerPc, consVars, printed, histVars>>

----------------------------------------------------------------------------
\* createValueStream, lines 125-134.

\* A generator that calls the value source only once a receiver waits.
EvalOnDemand == projPc = "range"

\* line 131: the operand of the send is evaluated on entering the select, without
\* waiting for a receiver or for done.
EvalReady == TRUE

\* Entering the select of line 128 evaluates getValue() (line 131, randVal's
\* rand.Int63n(num)), whether or not a receiver or done is ready.
GenEval ==
    /\ Running
    /\ genPc = "eval"
    /\ EvalReady
    /\ ghost => calls < MaxCalls
    /\ \E v \in Source : genVal' = v
    /\ genPc' = "select"
    /\ calls' = Tick(calls)
    /\ UNCHANGED <<flagVars, mainPc, fanI, doneCloses, closes, wcloses, projVars,
                   workVars, fwdVars, wg, closerPc, consVars, printed,
                   handed, sentInt, recvd, emitted, merged>>

\* A generator that sends again without calling the value source again.
GenLoopsToSelect == "select"

\* lines 127-128: after a send the loop enters the select again, which evaluates
\* getValue() again.
GenLoops == "eval"

GenSelect ==
    /\ Running
    /\ genPc = "select"
    /\ \E b \in Ready(doneClosed, projPc = "range") :
         IF b = "done"
           THEN /\ closes' = Close("valStream")
                /\ genPc' = "exit"
                /\ genVal' = NilItem
                /\ UNCHANGED <<projVars, handed, mainPc>>
           ELSE /\ genPc' = GenLoops
                /\ genVal' = NilItem
                /\ handed' = Tick(handed)
                /\ UNCHANGED closes
                \* line 147: the projection enters its select, which evaluates
                \* item.(int64); a failed assertion panics and the program stops.
                /\ IF IsInt64(genVal)
                     THEN /\ projVal' = genVal
                          /\ projPc' = "select"
                          /\ UNCHANGED mainPc
                     ELSE /\ mainPc' = "panicked"
                          /\ UNCHANGED projVars
    /\ UNCHANGED <<flagVars, fanI, doneCloses, wcloses,
                   workVars, fwdVars, wg, closerPc, consVars, printed,
                   calls, sentInt, recvd, emitted, merged>>

----------------------------------------------------------------------------
\* valuesToIntStream, lines 141-150.

\* line 143: the range over vals ends when vals is closed; defer close(intStream).
ProjRangeClosed ==
    /\ Running
    /\ projPc = "range"
    /\ IsClosed("valStream")
    /\ closes' = Close("intStream")
    /\ projPc' = "exit"
    /\ UNCHANGED <<flagVars, mainPc, fanI, doneCloses, wcloses, genVars, projVal,
                   workVars, fwdVars, wg, closerPc, consVars, printed, histVars>>

\* line 110: only a prime goes on to the select; anything else is dropped and the
\* worker is back at its range.
\* A worker that accepts nothing.
AcceptsNone(num) == FALSE

Accepts(num) == IsPrime(num)

\* A worker that sends every item it receives.
AfterReceiveAlways(num) == "select"

AfterReceive(num) == IF Accepts(num) THEN "select" ELSE "range"

\* A channel that hands the item to every worker waiting on it.
IntReceiversAll(w) == {x \in Workers : workPc[x] = "range"}

\* The workers that take the item when worker w's receive on intStream (line 108)
\* is matched with the projection's send: a channel hands a value to one receiver.
IntReceivers(w) == {w}

ProjSelect ==
    /\ Running
    /\ projPc = "select"
    /\ \E b \in Ready(doneClosed, \E w \in Workers : workPc[w] = "range") :
         IF b = "done"
           THEN /\ closes' = Close("intStream")
                /\ projPc' = "exit"
                /\ UNCHANGED <<workVars, sentInt, recvd>>
           ELSE /\ \E w \in {x \in Workers : workPc[x] = "range"} :
                     /\ workPc' = [x \in Workers |->
                                     IF x \in IntReceivers(w) THEN AfterReceive(projVal)
                                                              ELSE workPc[x]]
                     /\ workVal' = [x \in Workers |->
                                     IF x \in IntReceivers(w) /\ AfterReceive(projVal) = "select"
                                       THEN projVal ELSE workVal[x]]
                     /\ recvd' = [x \in Workers |->
                                     IF x \in IntReceivers(w) THEN Record(recvd[x], projVal)
                                                              ELSE recvd[x]]
                /\ sentInt' = Tick(sentInt)
                /\ projPc' = "range"
                /\ UNCHANGED closes
    /\ projVal' = NilItem
    /\ UNCHANGED <<flagVars, mainPc, fanI, doneCloses, wcloses, genVars,
                   fwdVars, wg, closerPc, consVars, printed, calls, handed, emitted,
                   merged>>

----------------------------------------------------------------------------
\* primeNumberWorker, lines 106-118.

\* line 108: the range over intStream ends when it is closed; defer close(primeNumStream).
WorkerRangeClosed(w) ==
    /\ Running
    /\ workPc[w] = "range"
    /\ IsClosed("intStream")
    /\ wcloses' = [wcloses EXCEPT ![w] = @ + 1]
    /\ workPc' = [workPc EXCEPT ![w] = "exit"]
    /\ UNCHANGED <<flagVars, mainPc, fanI, doneCloses, closes, genVars, projVars,
                   workVal, fwdVars, wg, closerPc, consVars, printed, histVars>>

\* Forwarders that all captured the loop variable: each reads the last channel.
FwdSourceLast(f) == N

\* lines 92-94: go reduceChan(wc): forwarder f ranges over the channel of worker f.
FwdSource(f) == f

\* The forwarders waiting to receive from worker w's channel.
FwdWaiting(w) == {f \in Workers : FwdSource(f) = w /\ fwdPc[f] = "range"}

WorkerSelect(w) ==
    /\ Running
    /\ workPc[w] = "select"
    /\ \E b \in Ready(doneClosed, FwdWaiting(w) # {}) :
         IF b = "done"
           THEN /\ wcloses' = [wcloses EXCEPT ![w] = @ + 1]
                /\ workPc' = [workPc EXCEPT ![w] = "exit"]
                /\ UNCHANGED <<fwdVars, emitted>>
           ELSE /\ \E f \in FwdWaiting(w) :
                     /\ fwdVal' = [fwdVal EXCEPT ![f] = workVal[w]]
                     /\ fwdPc' = [fwdPc EXCEPT ![f] = "select"]
                /\ workPc' = [workPc EXCEPT ![w] = "range"]
                /\ emitted' = [emitted EXCEPT ![w] = Record(@, workVal[w])]
                /\ UNCHANGED wcloses
    /\ workVal' = [workVal EXCEPT ![w] = NilItem]
    /\ UNCHANGED <<flagVars, mainPc, fanI, doneCloses, closes, genVars, projVars,
                   wg, closerPc, consVars, printed,
                   calls, handed, sentInt, recvd, merged>>

----------------------------------------------------------------------------
\* reduceWorkers, lines 79-98.

\* line 81: the range over the worker's channel ends when it is closed; defer wg.Done().
FwdRangeClosed(w) ==
    /\ Running
    /\ fwdPc[w] = "range"
    /\ wcloses[FwdSource(w)] > 0
    /\ wg' = wg - 1
    /\ fwdPc' = [fwdPc EXCEPT ![w] = "exit"]
    /\ UNCHANGED <<flagVars, mainPc, fanI, doneCloses, closes, wcloses, genVars, projVars,
                   workVars, fwdVal, closerPc, consVars, printed, histVars>>

FwdSelect(w) ==
    /\ Running
    /\ fwdPc[w] = "select"
    /\ \E b \in Ready(doneClosed, consPc = "recv") :
         IF b = "done"
           THEN /\ wg' = wg - 1
                /\ fwdPc' = [fwdPc EXCEPT ![w] = "exit"]
                /\ UNCHANGED <<consVars, merged>>
           ELSE /\ consVal' = fwdVal[w]
                /\ consPc' = "select"
                /\ fwdPc' = [fwdPc EXCEPT ![w] = "range"]
                /\ merged' = [merged EXCEPT ![w] = Record(@, fwdVal[w])]
                /\ UNCHANGED <<wg, consI>>
    /\ fwdVal' = [fwdVal EXCEPT ![w] = NilItem]
    /\ UNCHANGED <<flagVars, mainPc, fanI, doneCloses, closes, wcloses, genVars, projVars,
                   workVars, closerPc, printed, calls, handed, sentInt, recvd, emitted>>

\* A closer that does not wait.
WaitReturnsAtOnce == TRUE

\* line 96: wg.Wait() returns when the counter is zero.
WaitReturns == wg = 0

\* lines 95-98.
CloserClose ==
    /\ Running
    /\ closerPc = "wait"
    /\ WaitReturns
    /\ closes' = Close("reducedStream")
    /\ closerPc' = "exit"
    /\ UNCHANGED <<flagVars, mainPc, fanI, doneCloses, wcloses, genVars, projVars,
                   workVars, fwdVars, wg, consVars, printed, histVars>>

----------------------------------------------------------------------------
\* createResultStream, lines 60-69.

\* A loop that runs one round too many.
LoopContinuesOneMore == consI <= K

\* line 62: i < num.
LoopContinues == consI < K

\* line 62: the loop test; after num rounds the goroutine returns, defer close(result).
ConsLoop ==
    /\ Running
    /\ consPc = "loop"
    /\ IF LoopContinues
         THEN /\ consPc' = "recv"
              /\ UNCHANGED closes
         ELSE /\ consPc' = "exit"
              /\ closes' = Close("result")
    /\ UNCHANGED <<flagVars, mainPc, fanI, doneCloses, wcloses, genVars, projVars,
                   workVars, fwdVars, wg, closerPc, consI, consVal, printed, histVars>>

\* line 66: <-valueStream is evaluated on entering the select; on a closed channel
\* the receive returns the zero value at once.
ConsRecvClosed ==
    /\ Running
    /\ consPc = "recv"
    /\ IsClosed("reducedStream")
    /\ consVal' = NilItem
    /\ consPc' = "select"
    /\ UNCHANGED <<flagVars, mainPc, fanI, doneCloses, closes, wcloses, genVars, projVars,
                   workVars, fwdVars, wg, closerPc, consI, printed, histVars>>

\* lines 63-67; the send is received by main's range (line 50), which prints the item.
ConsSelect ==
    /\ Running
    /\ consPc = "select"
    /\ \E b \in Ready(doneClosed, mainPc = "range") :
         IF b = "done"
           THEN /\ closes' = Close("result")
                /\ consPc' = "exit"
                /\ UNCHANGED <<consI, printed>>
           ELSE /\ printed' = Append(printed, consVal)
                /\ consI' = consI + 1
                /\ consPc' = "loop"
                /\ UNCHANGED closes
    /\ consVal' = NilItem
    /\ UNCHANGED <<flagVars, mainPc, fanI, doneCloses, wcloses, genVars, projVars,
                   workVars, fwdVars, wg, closerPc, histVars>>

----------------------------------------------------------------------------
Next ==
    \/ MainCreateValueStream
    \/ MainValuesToIntStream
    \/ MainFanOut
    \/ MainReduceWorkers
    \/ MainCreateResultStream
    \/ MainRangeClosed
    \/ MainCloseDone
    \/ ProgramExit
    \/ GenEval
    \/ GenSelect
    \/ ProjRangeClosed
    \/ ProjSelect
    \/ \E w \in Workers : WorkerRangeClosed(w)
    \/ \E w \in Workers : WorkerSelect(w)
    \/ \E w \in Workers : FwdRangeClosed(w)
    \/ \E w \in Workers : FwdSelect(w)
    \/ CloserClose
    \/ ConsLoop
    \/ ConsRecvClosed
    \/ ConsSelect

\* Safety runs: histories recorded, value source capped at MaxCalls calls.
Spec == Init /\ [][Next]_vars

\* The pipeline fed by a value source of any type: what valuesToIntStream does
\* with an item that is not an int64.
AnySourceSpec == InitAnySource /\ [][Next]_vars

\* line 32 run once more by some caller after done has been closed: a close of a
\* closed channel panics and the program stops.  No such caller is in main.go;
\* this is close(done) as an operation, applied a second time.
TriggerAgain ==
    /\ Running
    /\ doneClosed
    /\ doneCloses' = doneCloses + 1
    /\ mainPc' = "panicked"
    /\ UNCHANGED <<flagVars, fanI, closes, wcloses, genVars, projVars,
                   workVars, fwdVars, wg, closerPc, consVars, printed, histVars>>

\* The program together with a caller that triggers cancellation again.
TriggerSpec == InitLive /\ [][Next \/ TriggerAgain]_vars


----------------------------------------------------------------------------
\* Fairness.  The Go scheduler runs every goroutine that can take a step, and
\* main, once returned, exits.

MainStep ==
    \/ MainCreateValueStream \/ MainValuesToIntStream \/ MainFanOut
    \/ MainReduceWorkers \/ MainCreateResultStream \/ MainRangeClosed
    \/ MainCloseDone \/ ProgramExit

GenStep == GenEval \/ GenSelect
ProjStep == ProjRangeClosed \/ ProjSelect
WorkerStep(w) == w \in Workers /\ (WorkerRangeClosed(w) \/ WorkerSelect(w))
FwdStep(w) == w \in Workers /\ (FwdRangeClosed(w) \/ FwdSelect(w))
ConsStep == ConsLoop \/ ConsRecvClosed \/ ConsSelect

\* The value source returns a value the workers accept: rand.Int63n does so again
\* and again when the range holds one.
GenEvalAccepted == GenEval /\ Accepts(genVal')

Fairness ==
    /\ WF_vars(MainStep)
    /\ WF_vars(GenStep) /\ SF_vars(GenEvalAccepted)
    /\ WF_vars(ProjStep)
    /\ \A w \in 1 .. LiveMaxN : WF_vars(WorkerStep(w)) /\ WF_vars(FwdStep(w))
    /\ WF_vars(CloserClose)
    /\ WF_vars(ConsStep)

\* The done case of each select.  A select whose done case is ready again and
\* again takes it eventually: select chooses among its ready cases at random.
GenCancel == GenSelect /\ genPc' = "exit"
ProjCancel == ProjSelect /\ projPc' = "exit"
WorkerCancel(w) == w \in Workers /\ WorkerSelect(w) /\ workPc'[w] = "exit"
FwdCancel(w) == w \in Workers /\ FwdSelect(w) /\ fwdPc'[w] = "exit"

CancelFairness ==
    /\ SF_vars(GenCancel)
    /\ SF_vars(ProjCancel)
    /\ \A w \in 1 .. LiveMaxN : SF_vars(WorkerCancel(w)) /\ SF_vars(FwdCancel(w))

\* Behaviours under fair scheduling, the value source unbounded.
FairSpec == InitLive /\ [][Next]_vars /\ Fairness

\* The same, with every select fair to its done case: the behaviours in which
\* cancellation, once fired, is seen by every goroutine that reaches a select.
CancelFairSpec == InitLive /\ [][Next]_vars /\ Fairness /\ CancelFairness

----------------------------------------------------------------------------
\* Properties.

RECURSIVE SumLen(_, _)
SumLen(f, S) ==
    IF S = {} THEN 0
    ELSE LET w == CHOOSE x \in S : TRUE IN Len(f[w]) + SumLen(f, S \ {w})

Front(q) == SubSeq(q, 1, Len(q) - 1)

AllTerminated ==
    /\ genPc = "exit" /\ projPc = "exit" /\ closerPc = "exit" /\ consPc = "exit"
    /\ \A w \in Workers : workPc[w] = "exit" /\ fwdPc[w] = "exit"

AllStreamsClosed ==
    /\ \A s \in Streams : closes[s] = 1
    /\ \A w \in Workers : wcloses[w] = 1

\* C1: with N >= 1 the consumer never puts more than K items on its output, and
\* once main has closed done exactly K items have been yielded.
C1_ExactCount ==
    N >= 1 => /\ Len(printed) <= K
              /\ doneClosed => Len(printed) = K

C1_Witness == N >= 1 /\ K >= 2 /\ doneClosed /\ Len(printed) = K

\* C2: once done is closed, every goroutine eventually terminates and every
\* stream ends up closed.
C2_Termination == doneClosed ~> (AllTerminated /\ AllStreamsClosed)

\* C3: no stream is closed twice, and no goroutine is at a send on a stream that
\* has been closed.
C3_CloseDiscipline ==
    /\ \A s \in Streams : closes[s] <= 1
    /\ \A w \in Workers : wcloses[w] <= 1
    /\ genPc = "select" => ~IsClosed("valStream")
    /\ projPc = "select" => ~IsClosed("intStream")
    /\ \A w \in Workers : workPc[w] = "select" => wcloses[w] = 0
    /\ \A w \in Workers : fwdPc[w] = "select" => ~IsClosed("reducedStream")
    /\ consPc = "select" => ~IsClosed("result")

C3_Witness == N >= 2 /\ K >= 1 /\ Len(printed) = K /\ AllStreamsClosed

\* C4: with N >= 1, every value sent on intStream has been received by exactly
\* one worker: the receives of all workers add up to the sends.
C4_ExactlyOnce == N >= 1 => SumLen(recvd, Workers) = sentInt

C4_Witness == N >= 2 /\ sentInt >= 2 /\ \A w \in Workers : Len(recvd[w]) >= 1

\* C5 as claimed: whenever a worker is done with the items it received (it is back
\* at its range or has terminated), its output holds exactly the received items
\* that are prime, also when cancellation fired while it held one.
C5_AcceptIff ==
    \A w \in Workers :
        workPc[w] \in {"range", "exit"} => emitted[w] = SelectSeq(recvd[w], IsPrime)

\* C5 amended: a worker's output holds, in order, the primes among the items it
\* received, except that the last of them is missing while the worker still
\* waits in its select, or for good once cancellation has fired.
C5_AcceptUnlessCancelled ==
    \A w \in Workers :
        LET acc == SelectSeq(recvd[w], IsPrime) IN
        /\ workPc[w] = "range" => emitted[w] = acc
        /\ workPc[w] = "select" =>
              acc # <<>> /\ emitted[w] = Front(acc) /\ workVal[w] = acc[Len(acc)]
        /\ workPc[w] = "exit" =>
              \/ emitted[w] = acc
              \/ doneClosed /\ acc # <<>> /\ emitted[w] = Front(acc)

C5_Witness ==
    \E w \in Workers :
        /\ workPc[w] = "exit"
        /\ Len(emitted[w]) >= 1
        /\ recvd[w] = <<2, 3>>
        /\ emitted[w] = <<2>>

\* C6: reducedStream is closed at most once, by the closer, and only when the
\* counter is 0 and every forwarder has finished; the counter starts at N, goes
\* down by one per finished forwarder and is never negative.
C6_CloseGating ==
    /\ closes["reducedStream"] = (IF closerPc = "exit" THEN 1 ELSE 0)
    /\ IsClosed("reducedStream") => wg = 0 /\ \A w \in Workers : fwdPc[w] = "exit"
    /\ wg >= 0
    /\ wg = (IF closerPc = "none" THEN 0
             ELSE Cardinality({w \in Workers : fwdPc[w] # "exit"}))

C6_Witness == N >= 2 /\ IsClosed("reducedStream") /\ Len(printed) >= 1

\* C7: with N = 0 nothing is ever placed on the consumer's output or printed.
C7_NoItemWithoutWorkers == N = 0 => printed = <<>>

\* C8: with K = 0 the consumer closes its output without receiving or yielding,
\* main closes done, nothing is printed and every stream eventually closes.
C8_ScenarioB ==
    K = 0 => /\ [](printed = <<>> /\ consPc \notin {"recv", "select"})
             /\ <>doneClosed
             /\ <>AllStreamsClosed

\* C9: with N >= 1 and a range that holds a prime, under fair scheduling the
\* pipeline never gets stuck before it completes, and it completes: K items are
\* yielded, the result stream is closed and main closes done.
Completed == doneClosed /\ Len(printed) = K /\ IsClosed("result")

C9_Completes ==
    (N >= 1 /\ \E v \in Values : IsPrime(v)) =>
        /\ [](Completed \/ ENABLED Next)
        /\ <>Completed

C9_Witness == N >= 1 /\ K >= 1 /\ Completed /\ printed[1] = 2

\* C10: with K >= 1, N >= 1 and a range of 0 and 1 only, the consumer never
\* yields, neither its output nor done is ever closed, and the pipeline runs for
\* ever: the value source is called again and again.
C10_Stalls ==
    (K >= 1 /\ N >= 1 /\ R <= 2) =>
        /\ [](printed = <<>> /\ ~IsClosed("result") /\ ~doneClosed /\ Running)
        /\ []<><<GenEval>>_vars

C10_Witness ==
    /\ K >= 1 /\ N >= 1 /\ R <= 2
    /\ consPc = "recv" /\ projPc = "select" /\ genPc = "select"
    /\ \A w \in Workers : workPc[w] = "range" /\ fwdPc[w] = "range"

\* C11: with one worker and a range that holds at least K primes, the items the
\* consumer yields are pairwise distinct.
PrimesInRange == {v \in Values : IsPrime(v)}

C11_Distinct ==
    (N = 1 /\ Cardinality(PrimesInRange) >= K) =>
        \A i, j \in 1 .. Len(printed) : i # j => printed[i] # printed[j]

\* C12: every forwarder relays its worker's items in the order the worker
\* emitted them, which is the order in which the worker read the matching items
\* off intStream; with one worker the sequence the consumer yields is a prefix
\* of that worker's emission sequence.
IsPrefix(a, b) == Len(a) <= Len(b) /\ SubSeq(b, 1, Len(a)) = a

C12_OrderPreserved ==
    /\ \A w \in Workers :
         /\ IsPrefix(merged[w], emitted[w])
         /\ IsPrefix(emitted[w], SelectSeq(recvd[w], IsPrime))
    /\ N = 1 => IsPrefix(printed, merged[1]) /\ IsPrefix(printed, emitted[1])

C12_Witness == N = 1 /\ K = 2 /\ doneClosed /\ printed = <<3, 2>>

\* C13: done is closed at most once and never reopens; only main's deferred
\* close closes it, and only after the result stream has been closed, the
\* consumer has finished and main's range over the result stream has ended.
C13_SingleLateCancel ==
    /\ [](doneCloses <= 1)
    /\ [](doneClosed => /\ IsClosed("result")
                        /\ consPc = "exit"
                        /\ Len(printed) = consI
                        /\ mainPc \in {"returned", "exited"})
    /\ [][doneCloses' >= doneCloses]_vars
    /\ [][doneCloses' # doneCloses => MainCloseDone /\ IsClosed("result")]_vars

C13_Witness ==
    /\ N >= 1 /\ K >= 1 /\ doneCloses = 1 /\ mainPc = "returned"
    /\ genPc = "select" /\ projPc = "range"

GenMoves == GenStep
ProjMoves == ProjStep \/ (GenSelect /\ projPc' # projPc)
WorkerMoves(w) == WorkerStep(w) \/ (ProjSelect /\ workPc'[w] # workPc[w])
FwdMoves(w) ==
    FwdStep(w) \/ (\E x \in Workers : WorkerSelect(x) /\ fwdPc'[w] # fwdPc[w])
ConsMoves == ConsStep \/ (\E w \in Workers : FwdSelect(w) /\ consPc' # consPc)

Live(pc) == pc \notin {"none", "exit"}

\* C15 (as claimed): once done is closed, every stage that has not terminated
\* has an enabled step.
C15_AllCancellable ==
    (doneClosed /\ Running) =>
        /\ Live(genPc) => ENABLED GenMoves
        /\ Live(projPc) => ENABLED ProjMoves
        /\ \A w \in Workers : Live(workPc[w]) => ENABLED WorkerMoves(w)
        /\ \A w \in Workers : Live(fwdPc[w]) => ENABLED FwdMoves(w)
        /\ Live(consPc) => ENABLED ConsMoves

\* C15 (amended): once done is closed, every stage waiting in a select can take
\* its done case and the generator can always step; a stage waiting in a
\* range-receive can step if its upstream stream is closed, and otherwise its
\* upstream stage has not terminated; the consumer has terminated.
C15_SelectsCancellable ==
    (doneClosed /\ Running) =>
        /\ genPc = "eval" => ENABLED GenEval
        /\ genPc = "select" => ENABLED GenCancel
        /\ projPc = "select" => ENABLED ProjCancel
        /\ projPc = "range" =>
             IF IsClosed("valStream") THEN ENABLED ProjRangeClosed
                                      ELSE Live(genPc)
        /\ \A w \in Workers :
             /\ workPc[w] = "select" => ENABLED WorkerCancel(w)
             /\ workPc[w] = "range" =>
                  IF IsClosed("intStream") THEN ENABLED WorkerRangeClosed(w)
                                           ELSE Live(projPc)
             /\ fwdPc[w] = "select" => ENABLED FwdCancel(w)
             /\ fwdPc[w] = "range" =>
                  IF wcloses[w] > 0 THEN ENABLED FwdRangeClosed(w)
                                    ELSE Live(workPc[w])
        /\ consPc = "exit"

C15_Witness ==
    /\ doneClosed /\ Running /\ N >= 1
    /\ projPc = "range" /\ genPc = "eval" /\ ~IsClosed("valStream")
    /\ ~ENABLED ProjMoves

\* C16 (as claimed): the value source is called only while the projection is
\* waiting to receive from valStream.
C16_DemandDriven == [][GenEval => projPc = "range"]_vars

\* C16 (amended): the generator calls the value source each time it enters its
\* select, whether or not the projection is waiting; the value then waits in the
\* select, and the source is not called again before that value has been handed
\* over.
C16_EagerByOne ==
    /\ [](genPc = "eval" /\ Running => ENABLED GenEval)
    /\ [](genPc = "select" => ~ENABLED GenEval)
    /\ [][GenEval => genPc' = "select" /\ genVal' \in Values]_vars

C16_Witness == Running /\ genPc = "select" /\ projPc = "select" /\ genVal # NilItem

\* C17: the value source has been called at most once more than values have
\* been handed over on valStream, every handed-over value comes from one call of
\* its own, and a generated value is given up only when done is closed.
C17_BoundedLookAhead ==
    /\ handed <= calls /\ calls <= handed + 1
    /\ genPc = "none" => calls = 0
    /\ genPc = "eval" => calls = handed
    /\ genPc = "select" => calls = handed + 1 /\ genVal \in Values
    /\ genPc = "exit" => calls = handed + 1 /\ doneClosed

C17_Witness == genPc = "exit" /\ handed >= 1 /\ calls = handed + 1

\* C18: while done is open, valStream, intStream and every worker output stay
\* open, and with N >= 1 so does the merged stream; a stage closes its output
\* only when its upstream is closed or done is closed.
C18_NoEarlyClose ==
    /\ [](~doneClosed =>
            /\ ~IsClosed("valStream")
            /\ ~IsClosed("intStream")
            /\ \A w \in Workers : wcloses[w] = 0
            /\ N >= 1 => ~IsClosed("reducedStream"))
    /\ [][closes'["valStream"] # closes["valStream"] => doneClosed]_vars
    /\ [][closes'["intStream"] # closes["intStream"] =>
            IsClosed("valStream") \/ doneClosed]_vars
    /\ [][\A w \in Workers : wcloses'[w] # wcloses[w] =>
            IsClosed("intStream") \/ doneClosed]_vars
    /\ [][closes'["reducedStream"] # closes["reducedStream"] =>
            \A w \in Workers : wcloses[w] > 0 \/ doneClosed]_vars

C18_Witness ==
    /\ N >= 2 /\ K >= 1 /\ ~doneClosed /\ IsClosed("result")
    /\ Len(printed) = K

\* C19: an item that is not an int64 never passes the projection: it is
\* not put on intStream and no worker receives it; its delivery to the projection
\* panics, and after the panic nothing in the pipeline takes a step.
C19_FatalMismatch ==
    /\ [](projVal # NotInt64)
    /\ [](\A w \in Workers :
            /\ workVal[w] # NotInt64
            /\ \A i \in 1 .. Len(recvd[w]) : recvd[w][i] # NotInt64)
    /\ [][(genVal = NotInt64 /\ handed' # handed) => mainPc' = "panicked"]_vars
    /\ [][mainPc = "panicked" => FALSE]_vars

C19_Witness ==
    /\ mainPc = "panicked" /\ doneCloses = 0
    /\ handed >= 2 /\ projPc = "range" /\ sentInt = handed - 1

\* C20: with N >= 1 every item the consumer yields is an item some worker
\* emitted and a forwarder relayed (so it is a prime and never the nil of a closed
\* stream), and no emission is yielded more often than it was emitted.
Count(q, v) == Cardinality({i \in 1 .. Len(q) : q[i] = v})

RECURSIVE SumCount(_, _, _)
SumCount(f, S, v) ==
    IF S = {} THEN 0
    ELSE LET w == CHOOSE x \in S : TRUE
         IN  Count(f[w], v) + SumCount(f, S \ {w}, v)

C20_Conservation ==
    N >= 1 =>
        /\ \A i \in 1 .. Len(printed) :
             printed[i] # NilItem /\ printed[i] \in Values /\ IsPrime(printed[i])
        /\ \A v \in Values \cup {NilItem} :
             /\ Count(printed, v) <= SumCount(merged, Workers, v)
             /\ SumCount(merged, Workers, v) <= SumCount(emitted, Workers, v)

C20_Witness ==
    /\ N = 2 /\ K = 2 /\ Len(printed) = 2
    /\ Len(merged[1]) = 1 /\ Len(merged[2]) = 1
====
